---- MODULE Spec2Model ----
(***************************************************************************)
(* serr: errors that carry a call-stack capture, wraps that add a message, *)
(* fields and the wrap's location, joins of several errors, and Unpack,    *)
(* which rebuilds the hierarchy of locations, links and branches.          *)
(*                                                                         *)
(* The repository holds two revisions of the constructors:                 *)
(*   rev = "serr"     src/serr.go          (rootError/wrapError/joinError  *)
(*                                          with explicit fields)          *)
(*   rev = "part_003" src/unnamed/part_003 (the same variants built from   *)
(*                                          the embedded Simple*Error)     *)
(* Cause, the annotation walk (nextStackFrameError / NextExtraStackError)  *)
(* and the >= 2 branch of JoinDepth are the same code in both; unpack      *)
(* (src/format.go) is the same in both up to the names of the interfaces.  *)
(* A behaviour fixes rev in its first state and keeps it.                  *)
(***************************************************************************)
EXTENDS Integers, Sequences, FiniteSets, TLC

VARIABLES
    rev,    \* which revision of the constructors this run uses
    heap,   \* the error values allocated so far; an error is its index, nil is 0
    last,   \* the last call of the construction surface and what it returned
    procs   \* the Join calls in progress in two goroutines

vars == <<rev, heap, last, procs>>

(***************************************************************************)
(* Bounds of the model.                                                    *)
(***************************************************************************)
\* Spec: errors allocated on top of the sentinels
MaxErrs == 2
\* Spec, SpecTree: length of a Join's cause sequence
MaxCauses == 3
\* SpecChain: errors of a chain (the root and the wraps on top of it)
MaxChain == 3

MaxTree == 2

MaxMerge == 2

\* the largest skip passed to a Depth function
MaxSkip == 2

\* the longest capture on which the floor scan alone is tried
MaxScan == 3

\* the errors made before the two goroutines start
MaxRace == 2

(***************************************************************************)
(* The calling program.  A program counter is a positive number; 0 is the  *)
(* zero uintptr.  The program is                                           *)
(*    runtime:  1: main()                                                  *)
(*    main:     2: g()     3: f()     4: a call of serr                    *)
(*    g:        5: f()     6, 7: two calls of serr on one line (as in      *)
(*                               Wrapf(Wrapf(err, ..), ..) of the test)    *)
(*    f:        8: a call of serr                                          *)
(* A call site is the goroutine's stack at a call of the construction      *)
(* surface, innermost first: the return addresses runtime.Callers reports  *)
(* once the library's own frames are skipped.  Errors travel freely        *)
(* (return values, arguments, globals), so any error can be used at any    *)
(* call site.                                                              *)
(***************************************************************************)
Sites ==
    { <<4, 1>>, <<6, 2, 1>>, <<7, 2, 1>>, <<8, 3, 1>>, <<8, 5, 2, 1>> }

FuncOf(pc) ==
    CASE pc = 1 -> "runtime.main"
      [] pc \in {2, 3, 4} -> "main.main"
      [] pc \in {5, 6, 7} -> "main.g"
      [] pc = 8 -> "main.f"
      [] OTHER -> "serr"

\* 6 and 7 are two calls on one source line
LineOf(pc) == IF pc = 7 THEN 6 ELSE pc

\* the return addresses inside the library (New, ErrorDepths, NewCallers, ...,
\* runtime.Callers itself): one program counter stands for all of them
LibPC == 99

(***************************************************************************)
(* Inputs: message, message arguments and fields of an annotation.         *)
(***************************************************************************)
NoFields == {}

Annotation(fields, msg, msgArgs) ==
    [fields |-> fields, msg |-> msg, msgArgs |-> msgArgs]

EmptyAnn == Annotation(NoFields, "", <<>>)

\* the empty annotation, a message with an argument, fields alone
Anns ==
    { EmptyAnn,
      Annotation(NoFields, "top %s", <<"x">>),
      Annotation({<<"k", "v">>}, "", <<>>) }

FullAnn == Annotation({<<"k", "v">>}, "mid %s", <<"x">>)

(***************************************************************************)
(* Sequences helpers.                                                      *)
(***************************************************************************)
Min(a, b) == IF a < b THEN a ELSE b

Take(s, n) == SubSeq(s, 1, Min(n, Len(s)))

Drop(s, n) == SubSeq(s, n + 1, Len(s))

Range(s) == { s[i] : i \in 1..Len(s) }


(***************************************************************************)
(* Error values.  kind is the dynamic type; "foreign" is any error type    *)
(* from outside the package (errors.New sentinels, fmt.Errorf("%w")).      *)
(*   callers  the full capture ([]uintptr), innermost first                *)
(*   data     the *ExtraStackData / *AdditionalInformation: <<>> is the    *)
(*            nil pointer, <<d>> a pointer to d                            *)
(*   err      the wrapped cause, 0 for nil                                 *)
(*   errs     a joinError's causes                                        *)
(*   unwraps  whether a foreign error has an Unwrap() error method         *)
(***************************************************************************)
Nil == 0

NilData == <<>>

rootError(callers, data, err) ==
    [kind |-> "rootError", callers |-> callers, data |-> data, err |-> err,
     errs |-> <<>>, unwraps |-> TRUE]

wrapError(data, err) ==
    [kind |-> "wrapError", callers |-> <<>>, data |-> data, err |-> err,
     errs |-> <<>>, unwraps |-> TRUE]

joinError(callers, errs) ==
    [kind |-> "joinError", callers |-> callers, data |-> NilData, err |-> Nil,
     errs |-> errs, unwraps |-> FALSE]

foreignError(err, unwraps) ==
    [kind |-> "foreign", callers |-> <<>>, data |-> NilData, err |-> err,
     errs |-> <<>>, unwraps |-> unwraps]

\* err.(FullStackError) / err.(StackError): the type has a Callers() method
IsFullStackError(h, e) == e # Nil /\ h[e].kind \in {"rootError", "joinError"}

\* err.(ExtraStackError) / err.(StackFrameError)
IsExtraStackError(h, e) == e # Nil /\ h[e].kind \in {"rootError", "wrapError"}

\* err.(interface{ Unwrap() error })
HasUnwrap(h, e) ==
    e # Nil /\ (h[e].kind \in {"rootError", "wrapError"}
                  \/ (h[e].kind = "foreign" /\ h[e].unwraps))

\* err.(interface{ Unwrap() []error })
HasUnwrapMulti(h, e) == e # Nil /\ h[e].kind = "joinError"

(***************************************************************************)
(* Capture primitives.  lib is the number of frames of the library on the  *)
(* goroutine's stack while the function runs, its own frame included; the  *)
(* user's frames (site) lie beneath them.                                  *)
(***************************************************************************)
depth == 64

\* runtime.Callers(skip, pcs[:n]): frame 0 is runtime.Callers itself
RuntimeCallers(lib, site, skip, n) ==
    Take(Drop([i \in 1..lib |-> LibPC] \o site, skip), n)

NewCallers(lib, site, skip) == RuntimeCallers(lib + 1, site, skip, depth)

NewExtraStackDataFromCallers(callers) ==
    [caller |-> IF Len(callers) > 0 THEN callers[1] ELSE 0,
     callerCaller |-> IF Len(callers) > 1 THEN callers[2] ELSE 0,
     fields |-> NoFields, msg |-> "", msgArgs |-> <<>>]

NewExtraStackData(lib, site, skip) ==
    LET pcs == RuntimeCallers(lib + 1, site, skip, 2) IN
    [caller |-> IF Len(pcs) > 0 THEN pcs[1] ELSE 0,
     callerCaller |-> IF Len(pcs) > 1 THEN pcs[2] ELSE 0,
     fields |-> NoFields, msg |-> "", msgArgs |-> <<>>]

\* the names of the same two functions in src/serr.go
NewAdditionalInformationFromCallers(callers) ==
    NewExtraStackDataFromCallers(callers)

NewAdditionalInformation(lib, site, skip) == NewExtraStackData(lib, site, skip)

WithAnnotation(d, fields, msg, msgArgs) ==
    [d EXCEPT !.fields = fields, !.msg = msg, !.msgArgs = msgArgs]

(***************************************************************************)
(* Chain traversal.                                                        *)
(***************************************************************************)
\* get the first FullStackError, return nil if not found
RECURSIVE Cause(_, _)
Cause(h, err) ==
    IF err = Nil THEN Nil
    ELSE IF IsFullStackError(h, err) /\ Len(h[err].callers) > 0 THEN err
    ELSE IF ~HasUnwrap(h, err) THEN Nil
    ELSE Cause(h, h[err].err)

RECURSIVE NextExtraStackError(_, _)
NextExtraStackError(h, err) ==
    IF err = Nil THEN Nil
    ELSE IF ~HasUnwrap(h, err) THEN Nil
    ELSE LET next == h[err].err IN
         IF ~IsExtraStackError(h, next) THEN Nil
         ELSE IF h[next].data # NilData THEN next
         ELSE NextExtraStackError(h, next)

(***************************************************************************)
(* Constructors.  Each returns the heap after the call and the error it    *)
(* returns (ret, Nil for a nil error).                                     *)
(***************************************************************************)
Alloc(h, e) == [heap |-> Append(h, e), ret |-> Len(h) + 1]

Live(errs) == SelectSeq(errs, LAMBDA e : e # Nil)

\* ---- src/serr.go -------------------------------------------------------
ErrorDepths(lib, site, skip, h, fields, msg, args) ==
    LET callers == NewCallers(lib + 1, site, skip + 3)
        additionalInformation ==
            WithAnnotation(NewAdditionalInformationFromCallers(callers),
                           fields, msg, args)
    IN  Alloc(h, rootError(callers, <<additionalInformation>>, Nil))

\* faulty variant: Wrap never upgrades to a Root (no capture for a foreign cause)
WrapDepth_neverRoot(lib, site, skip, h, err) ==
    Alloc(h, wrapError(<<NewAdditionalInformation(lib + 1, site, skip + 3)>>, err))

WrapDepth(lib, site, skip, h, err) ==
    IF Cause(h, err) # Nil
    THEN Alloc(h, wrapError(<<NewAdditionalInformation(lib + 1, site, skip + 3)>>,
                            err))
    ELSE Alloc(h, rootError(NewCallers(lib + 1, site, skip + 3), NilData, err))

\* faulty variant: the anchor is looked for in the cause itself only, not down its chain
WrapDepths_shallow(lib, site, skip, h, err, fields, msg, msgArgs) ==
    IF IsFullStackError(h, err) /\ Len(h[err].callers) > 0
    THEN LET additionalInformation ==
                 WithAnnotation(NewAdditionalInformation(lib + 1, site, skip + 3),
                                fields, msg, msgArgs)
         IN  Alloc(h, wrapError(<<additionalInformation>>, err))
    ELSE LET callers == NewCallers(lib + 1, site, skip + 3)
             additionalInformation ==
                 WithAnnotation(NewAdditionalInformationFromCallers(callers),
                                fields, msg, msgArgs)
         IN  Alloc(h, rootError(callers, <<additionalInformation>>, err))

\* faulty variant: a nil cause is passed through (the errors.Wrap convention)
WrapDepths_nilIsNil(lib, site, skip, h, err, fields, msg, msgArgs) ==
    IF err = Nil THEN [heap |-> h, ret |-> Nil]
    ELSE IF Cause(h, err) # Nil
    THEN LET additionalInformation ==
                 WithAnnotation(NewAdditionalInformation(lib + 1, site, skip + 3),
                                fields, msg, msgArgs)
         IN  Alloc(h, wrapError(<<additionalInformation>>, err))
    ELSE LET callers == NewCallers(lib + 1, site, skip + 3)
             additionalInformation ==
                 WithAnnotation(NewAdditionalInformationFromCallers(callers),
                                fields, msg, msgArgs)
         IN  Alloc(h, rootError(callers, <<additionalInformation>>, err))

WrapDepths(lib, site, skip, h, err, fields, msg, msgArgs) ==
    IF Cause(h, err) # Nil
    THEN LET additionalInformation ==
                 WithAnnotation(NewAdditionalInformation(lib + 1, site, skip + 3),
                                fields, msg, msgArgs)
         IN  Alloc(h, wrapError(<<additionalInformation>>, err))
    ELSE LET callers == NewCallers(lib + 1, site, skip + 3)
             additionalInformation ==
                 WithAnnotation(NewAdditionalInformationFromCallers(callers),
                                fields, msg, msgArgs)
         IN  Alloc(h, rootError(callers, <<additionalInformation>>, err))

\* faulty variant: the append loop starts one argument too late (errs[2:])
JoinDepth_lateAppend(lib, site, skip, h, errs) ==
    LET n == Len(Live(errs)) IN
    IF n = 0 THEN [heap |-> h, ret |-> Nil]
    ELSE IF n = 1
    THEN Alloc(h, rootError(NewCallers(lib + 1, site, skip + 3), NilData,
                            Live(errs)[1]))
    ELSE IF errs[1] # Nil /\ h[errs[1]].kind = "joinError"
    THEN [heap |-> [h EXCEPT ![errs[1]].errs = @ \o Live(Tail(Tail(errs)))],
          ret |-> errs[1]]
    ELSE Alloc(h, joinError(NewCallers(lib + 1, site, skip + 3), Live(errs)))

\* faulty variant: a Join in first position is not appended to but nested in a new Join
JoinDepth_nested(lib, site, skip, h, errs) ==
    LET n == Len(Live(errs)) IN
    IF n = 0 THEN [heap |-> h, ret |-> Nil]
    ELSE IF n = 1
    THEN Alloc(h, rootError(NewCallers(lib + 1, site, skip + 3), NilData,
                            Live(errs)[1]))
    ELSE Alloc(h, joinError(NewCallers(lib + 1, site, skip + 3), Live(errs)))

\* faulty variant: the n == 1 case is missing, a single live error is joined
JoinDepth_joinsOne(lib, site, skip, h, errs) ==
    LET n == Len(Live(errs)) IN
    IF n = 0 THEN [heap |-> h, ret |-> Nil]
    ELSE IF errs[1] # Nil /\ h[errs[1]].kind = "joinError"
    THEN [heap |-> [h EXCEPT ![errs[1]].errs = @ \o Live(Tail(errs))],
          ret |-> errs[1]]
    ELSE Alloc(h, joinError(NewCallers(lib + 1, site, skip + 3), Live(errs)))

\* join errors into first error
JoinDepth(lib, site, skip, h, errs) ==
    LET n == Len(Live(errs)) IN
    IF n = 0 THEN [heap |-> h, ret |-> Nil]
    ELSE IF n = 1
    THEN Alloc(h, rootError(NewCallers(lib + 1, site, skip + 3), NilData,
                            Live(errs)[1]))
    ELSE IF errs[1] # Nil /\ h[errs[1]].kind = "joinError"
    THEN [heap |-> [h EXCEPT ![errs[1]].errs = @ \o Live(Tail(errs))],
          ret |-> errs[1]]
    ELSE Alloc(h, joinError(NewCallers(lib + 1, site, skip + 3), Live(errs)))

\* ---- src/unnamed/part_003 ----------------------------------------------
NewSimpleFullStackError(lib, site, skip) == NewCallers(lib + 1, site, skip + 3)

ErrorDepthsWrapError(lib, site, skip, h, err, fields, msg, args) ==
    LET simpleFullStackErr == NewSimpleFullStackError(lib + 1, site, skip + 1)
        extraStackData ==
            WithAnnotation(NewExtraStackDataFromCallers(simpleFullStackErr),
                           fields, msg, args)
    IN  Alloc(h, rootError(simpleFullStackErr, <<extraStackData>>, err))

WrapDepths_p3(lib, site, skip, h, err, fields, msg, msgArgs) ==
    IF Cause(h, err) # Nil
    THEN LET extraStackData ==
                 WithAnnotation(NewExtraStackData(lib + 1, site, skip + 3),
                                fields, msg, msgArgs)
         IN  Alloc(h, wrapError(<<extraStackData>>, err))
    ELSE ErrorDepthsWrapError(lib + 1, site, skip + 1, h, err, NoFields, "", <<>>)

WrapDepth_p3(lib, site, skip, h, err) ==
    WrapDepths_p3(lib + 1, site, skip + 1, h, err, NoFields, "", <<>>)

JoinDepth_p3(lib, site, skip, h, errs) ==
    LET n == Len(Live(errs)) IN
    IF n = 0 THEN [heap |-> h, ret |-> Nil]
    ELSE IF n = 1
    THEN ErrorDepthsWrapError(lib + 1, site, skip + 1, h, Live(errs)[1],
                              NoFields, "", <<>>)
    ELSE IF errs[1] # Nil /\ h[errs[1]].kind = "joinError"
    THEN [heap |-> [h EXCEPT ![errs[1]].errs = @ \o Live(Tail(errs))],
          ret |-> errs[1]]
    ELSE Alloc(h, joinError(NewCallers(lib + 1, site, skip + 3), Live(errs)))

(***************************************************************************)
(* The public construction surface, by revision.  The exported function    *)
(* is one library frame and passes skip = 1 to its Depth variant.          *)
(***************************************************************************)
\* jerr.errs = append(jerr.errs, err) in two steps: the read of jerr.errs,
\* and the write of the slice with err appended to what was read
JoinAppendRead(h, jerr) == h[jerr].errs

\* faulty variant: what was read is written back without err
JoinAppendWrite_noAppend(h, jerr, local, err) ==
    [h EXCEPT ![jerr].errs = local]

JoinAppendWrite(h, jerr, local, err) ==
    [h EXCEPT ![jerr].errs = Append(local, err)]

CallNew(r, site, h, ann) ==
    IF r = "serr"
    THEN ErrorDepths(2, site, 1, h, ann.fields, ann.msg, ann.msgArgs)
    ELSE ErrorDepthsWrapError(2, site, 1, h, Nil, ann.fields, ann.msg, ann.msgArgs)

CallWrap(r, site, h, err) ==
    IF r = "serr" THEN WrapDepth(2, site, 1, h, err)
    ELSE WrapDepth_p3(2, site, 1, h, err)

CallWraps(r, site, h, err, ann) ==
    IF r = "serr"
    THEN WrapDepths(2, site, 1, h, err, ann.fields, ann.msg, ann.msgArgs)
    ELSE WrapDepths_p3(2, site, 1, h, err, ann.fields, ann.msg, ann.msgArgs)

CallJoin(r, site, h, errs) ==
    IF r = "serr" THEN JoinDepth(2, site, 1, h, errs)
    ELSE JoinDepth_p3(2, site, 1, h, errs)

\* the Depth functions called by the program itself, with its own skip
CallErrorDepths(r, site, skip, h, ann) ==
    IF r = "serr"
    THEN ErrorDepths(1, site, skip, h, ann.fields, ann.msg, ann.msgArgs)
    ELSE ErrorDepthsWrapError(2, site, skip + 1, h, Nil,
                              ann.fields, ann.msg, ann.msgArgs)

CallWrapDepths(r, site, skip, h, err, ann) ==
    IF r = "serr"
    THEN WrapDepths(1, site, skip, h, err, ann.fields, ann.msg, ann.msgArgs)
    ELSE WrapDepths_p3(1, site, skip, h, err, ann.fields, ann.msg, ann.msgArgs)

CallJoinDepth(r, site, skip, h, errs) ==
    IF r = "serr" THEN JoinDepth(1, site, skip, h, errs)
    ELSE JoinDepth_p3(1, site, skip, h, errs)

(***************************************************************************)
(* Hierarchy reconstruction (src/format.go).                               *)
(***************************************************************************)
getLocation(pc) ==
    IF pc = 0 THEN [Filename |-> "", Line |-> 0, FuncName |-> ""]
    ELSE [Filename |-> IF FuncOf(pc) = "serr" THEN "serr.go" ELSE "main.go",
          Line |-> LineOf(pc), FuncName |-> FuncOf(pc)]

WrapLink(Msg, MsgArgs, Fields, CallerLocation) ==
    [Msg |-> Msg, MsgArgs |-> MsgArgs, Fields |-> Fields,
     CallerLocation |-> CallerLocation]

UnpackHierarchy(ErrExternal, CallerLocations, Links, SubHierarchies) ==
    [ErrExternal |-> ErrExternal, CallerLocations |-> CallerLocations,
     Links |-> Links, SubHierarchies |-> SubHierarchies]

\* unpack does not return: callers[1] indexes past the end of the capture
\* (a run-time panic), or the recursion never ends (a cycle of causes)
PanicHierarchy == UnpackHierarchy(-1, <<>>, <<>>, <<>>)

OverflowHierarchy == UnpackHierarchy(-2, <<>>, <<>>, <<>>)

Aborted(hierarchy) == hierarchy \in {PanicHierarchy, OverflowHierarchy}

addCallerLocation(CallerLocations, callerLocation) ==
    IF Len(CallerLocations) > 0
       /\ CallerLocations[Len(CallerLocations)] = callerLocation
    THEN CallerLocations
    ELSE Append(CallerLocations, callerLocation)

\* faulty variant: a floor that is not found is no floor
RECURSIVE scanParentPC_wholeOnMiss(_, _, _)
scanParentPC_wholeOnMiss(callers, parentPC, callerStartIndex) ==
    IF callerStartIndex < 1 THEN Len(callers)
    ELSE IF callers[callerStartIndex] = parentPC THEN callerStartIndex - 1
    ELSE scanParentPC_wholeOnMiss(callers, parentPC, callerStartIndex - 1)

\* faulty variant: the walk starts at the floor itself
RECURSIVE scanParentPC_atFloor(_, _, _)
scanParentPC_atFloor(callers, parentPC, callerStartIndex) ==
    IF callerStartIndex < 1 THEN callerStartIndex
    ELSE IF callers[callerStartIndex] = parentPC THEN callerStartIndex
    ELSE scanParentPC_atFloor(callers, parentPC, callerStartIndex - 1)

\* the scan for parentPC from the deepest frame; indexes are 1-based here, so
\* the result is Go's callerStartIndex + 1 and 0 stands for Go's -1
RECURSIVE scanParentPC(_, _, _)
scanParentPC(callers, parentPC, callerStartIndex) ==
    IF callerStartIndex < 1 THEN callerStartIndex
    ELSE IF callers[callerStartIndex] = parentPC THEN callerStartIndex - 1
    ELSE scanParentPC(callers, parentPC, callerStartIndex - 1)

callerStart(callers, parentPC) ==
    IF parentPC # 0 THEN scanParentPC(callers, parentPC, Len(callers))
    ELSE Len(callers)

\* where the annotation cursor starts
firstExtraStackErr(h, err) ==
    IF IsExtraStackError(h, err)
    THEN IF h[err].data # NilData THEN err ELSE NextExtraStackError(h, err)
    ELSE Nil

\* the frame walk: the two nested loops over callerIndex and extraStackErr
RECURSIVE walkCallers(_, _, _, _, _)
walkCallers(h, callers, callerIndex, extraStackErr, hierarchy) ==
    IF callerIndex < 1 THEN hierarchy
    ELSE IF /\ extraStackErr # Nil
            /\ callerIndex # Len(callers)
            /\ callers[callerIndex + 1] = h[extraStackErr].data[1].callerCaller
    THEN LET extraStackData == h[extraStackErr].data[1]
             callerLocation == getLocation(extraStackData.caller)
             links ==
                 IF \/ Len(extraStackData.msg) # 0
                    \/ Len(extraStackData.msgArgs) # 0
                    \/ Cardinality(extraStackData.fields) # 0
                 THEN Append(hierarchy.Links,
                             WrapLink(extraStackData.msg, extraStackData.msgArgs,
                                      extraStackData.fields, callerLocation))
                 ELSE hierarchy.Links
         IN  walkCallers(h, callers, callerIndex,
                         NextExtraStackError(h, extraStackErr),
                         [hierarchy EXCEPT
                            !.Links = links,
                            !.CallerLocations =
                                addCallerLocation(@, callerLocation)])
    ELSE walkCallers(h, callers, callerIndex - 1, extraStackErr,
                     [hierarchy EXCEPT
                        !.CallerLocations =
                            addCallerLocation(@, getLocation(callers[callerIndex]))])

\* flattening as it would be with "len(hierarchy.SubHierarchies) >= 1"
flatten_anyChild(hierarchy) ==
    IF Len(hierarchy.SubHierarchies) >= 1
    THEN LET subHierarchies == hierarchy.SubHierarchies[1] IN
         UnpackHierarchy(subHierarchies.ErrExternal,
                         hierarchy.CallerLocations \o subHierarchies.CallerLocations,
                         hierarchy.Links \o subHierarchies.Links,
                         subHierarchies.SubHierarchies)
    ELSE hierarchy

\* the flattening of a single child into its parent
flatten(hierarchy) ==
    IF Len(hierarchy.SubHierarchies) = 1
    THEN LET subHierarchies == hierarchy.SubHierarchies[1] IN
         UnpackHierarchy(subHierarchies.ErrExternal,
                         hierarchy.CallerLocations \o subHierarchies.CallerLocations,
                         hierarchy.Links \o subHierarchies.Links,
                         subHierarchies.SubHierarchies)
    ELSE hierarchy

\* fuel bounds the depth of the recursion: a heap without a cycle of causes
\* never uses it up
RECURSIVE unpack(_, _, _, _)
unpack(h, err, parentPC, fuel) ==
    LET fullStackErr == Cause(h, err) IN
    IF fuel = 0 THEN OverflowHierarchy
    ELSE IF fullStackErr = Nil THEN UnpackHierarchy(err, <<>>, <<>>, <<>>)
    ELSE
    LET callers == h[fullStackErr].callers
        walked == walkCallers(h, callers, callerStart(callers, parentPC),
                              firstExtraStackErr(h, err),
                              UnpackHierarchy(Nil, <<>>, <<>>, <<>>))
        causes == IF HasUnwrap(h, fullStackErr) THEN <<h[fullStackErr].err>>
                  ELSE IF HasUnwrapMulti(h, fullStackErr) THEN h[fullStackErr].errs
                  ELSE <<>>
    IN  IF Len(causes) > 0 /\ Len(callers) < 2 THEN PanicHierarchy
        ELSE
        LET subs == [i \in 1..Len(causes) |->
                        unpack(h, causes[i], callers[2], fuel - 1)]
            bad == { i \in 1..Len(subs) : Aborted(subs[i]) }
        IN  IF bad # {}
            THEN subs[CHOOSE i \in bad : \A j \in bad : i <= j]
            ELSE flatten([walked EXCEPT !.SubHierarchies = subs])

Unpack(h, err) == unpack(h, err, 0, Len(h) + 2)

(***************************************************************************)
(* The string renderer (src/format.go).  The text is kept as the sequence  *)
(* of the pieces that the code concatenates, each with what it is: "loc"   *)
(* an output of LocationFormatFunc, "msg" a formatted link message,        *)
(* "fields" a field dump, "ext" the text of the external error, "label" a  *)
(* branch label, "sep" a separator.  Text is their concatenation.          *)
(***************************************************************************)
Piece(kind, text) == [kind |-> kind, text |-> text]

RECURSIVE Text(_)
Text(pieces) ==
    IF pieces = <<>> THEN "" ELSE Head(pieces).text \o Text(Tail(pieces))

\* the scan of a format string by fmt.Sprintf, for the formats used here:
\* literal text and %s verbs
FormatPieces(msg) ==
    CASE msg = ""       -> <<>>
      [] msg = "top %s" -> <<"top ", "%s">>
      [] msg = "mid %s" -> <<"mid ", "%s">>
      [] OTHER          -> <<msg>>

RECURSIVE ExtraArgs(_)
ExtraArgs(args) ==
    "string=" \o Head(args)
       \o (IF Len(args) > 1 THEN ", " \o ExtraArgs(Tail(args)) ELSE "")

\* fmt.Sprintf: a verb without an argument prints %!s(MISSING), arguments
\* without a verb are listed in %!(EXTRA ...)
RECURSIVE SprintfPieces(_, _)
SprintfPieces(pieces, args) ==
    IF pieces = <<>>
    THEN IF args = <<>> THEN "" ELSE "%!(EXTRA " \o ExtraArgs(args) \o ")"
    ELSE IF Head(pieces) = "%s"
    THEN IF args = <<>>
         THEN "%!s(MISSING)" \o SprintfPieces(Tail(pieces), args)
         ELSE Head(args) \o SprintfPieces(Tail(pieces), Tail(args))
    ELSE Head(pieces) \o SprintfPieces(Tail(pieces), args)

Sprintf(msg, args) == SprintfPieces(FormatPieces(msg), args)

DefaultLocationFormatFunc(frame) ==
    frame.Filename \o ":" \o ToString(frame.Line) \o "(" \o frame.FuncName \o ")"

\* fmt.Sprint of a map: map[k:v k:v], the keys in sorted order (the field
\* maps used here hold one key at most)
RECURSIVE FieldPairs(_)
FieldPairs(fields) ==
    IF fields = {} THEN ""
    ELSE LET kv == CHOOSE p \in fields : TRUE IN
         kv[1] \o ":" \o kv[2]
            \o (IF fields = {kv} THEN "" ELSE " " \o FieldPairs(fields \ {kv}))

DefaultFieldFormat(fields) == "map[" \o FieldPairs(fields) \o "]"

\* faulty variant: one separator set for both modes
NewDefaultStringFormat_traceOnly(WithTrace) ==
    [WithTrace |-> WithTrace, MsgStackSep |-> "\n", PreStackSep |-> "\t",
     StackElemSep |-> "\n", ErrorSep |-> "\n"]

NewDefaultStringFormat(WithTrace) ==
    IF WithTrace
    THEN [WithTrace |-> TRUE, MsgStackSep |-> "\n", PreStackSep |-> "\t",
          StackElemSep |-> "\n", ErrorSep |-> "\n"]
    ELSE [WithTrace |-> FALSE, MsgStackSep |-> "", PreStackSep |-> "",
          StackElemSep |-> "", ErrorSep |-> ": "]

\* strings.Repeat
RECURSIVE Repeat(_, _)
Repeat(str, count) == IF count <= 0 THEN "" ELSE str \o Repeat(str, count - 1)

\* what a renderer produces: its output, or the way it did not return
\* ("panic": an index out of range; "overflow": a recursion without end)
Rendered(out) == [abort |-> "", out |-> out]

RenderAbort(how) == [abort |-> how, out |-> <<>>]

\* the frames printed before a link's own location (the inner for loop);
\* stackIndex is Go's, so Go's CallerLocations[stackIndex] is entry
\* stackIndex + 1 here
RECURSIVE scanLocations(_, _, _, _, _)
scanLocations(hierarchy, format, level, link, stackIndex) ==
    IF /\ stackIndex < Len(hierarchy.CallerLocations) - 1
       /\ hierarchy.CallerLocations[stackIndex + 1] # link.CallerLocation
    THEN LET rest == scanLocations(hierarchy, format, level, link, stackIndex + 1) IN
         [out |-> << Piece("sep", Repeat(format.PreStackSep, level)),
                     Piece("loc", DefaultLocationFormatFunc(
                                      hierarchy.CallerLocations[stackIndex + 1])),
                     Piece("sep", format.StackElemSep) >> \o rest.out,
          stackIndex |-> rest.stackIndex]
    ELSE [out |-> <<>>, stackIndex |-> stackIndex]

\* the loop over hierarchy.Links, from link i on
RECURSIVE linkLoop(_, _, _, _, _)
linkLoop(hierarchy, format, level, i, stackIndex) ==
    IF i > Len(hierarchy.Links)
    THEN [abort |-> "", out |-> <<>>, stackIndex |-> stackIndex]
    ELSE IF /\ format.WithTrace /\ stackIndex # 0
            /\ stackIndex > Len(hierarchy.CallerLocations)
    THEN [abort |-> "panic", out |-> <<>>, stackIndex |-> stackIndex]
    ELSE
    LET link == hierarchy.Links[i]
        located ==
            IF /\ format.WithTrace
               /\ \/ stackIndex = 0
                  \/ hierarchy.CallerLocations[stackIndex] # link.CallerLocation
            THEN LET scan == scanLocations(hierarchy, format, level, link,
                                           stackIndex)
                 IN  [out |-> scan.out \o
                        << Piece("sep", Repeat(format.PreStackSep, level)),
                           Piece("loc", DefaultLocationFormatFunc(link.CallerLocation)),
                           Piece("sep", format.MsgStackSep) >>,
                      stackIndex |-> scan.stackIndex + 1]
            ELSE [out |-> <<>>, stackIndex |-> stackIndex]
        text ==
            <<Piece("msg", Sprintf(link.Msg, link.MsgArgs))>>
               \o (IF Cardinality(link.Fields) # 0
                   THEN << Piece("sep", Repeat(format.PreStackSep, level + 1)),
                           Piece("fields", DefaultFieldFormat(link.Fields)) >>
                   ELSE <<>>)
               \o <<Piece("sep", format.ErrorSep)>>
        rest == linkLoop(hierarchy, format, level, i + 1, located.stackIndex)
    IN  [abort |-> rest.abort, out |-> located.out \o text \o rest.out,
         stackIndex |-> rest.stackIndex]

\* the frames left after the links
RECURSIVE restLocations(_, _, _, _)
restLocations(hierarchy, format, level, stackIndex) ==
    IF stackIndex < Len(hierarchy.CallerLocations)
    THEN << Piece("sep", Repeat(format.PreStackSep, level)),
            Piece("loc", DefaultLocationFormatFunc(
                             hierarchy.CallerLocations[stackIndex + 1])),
            Piece("sep", format.StackElemSep) >>
            \o restLocations(hierarchy, format, level, stackIndex + 1)
    ELSE <<>>

\* faulty variant: the labels are printed also without trace
RECURSIVE branches_labelled(_, _, _, _)
branches_labelled(subs, format, level, i) ==
    IF i > Len(subs) THEN <<>>
    ELSE << Piece("sep", Repeat(format.PreStackSep, level)),
            Piece("label", "#" \o ToString(i - 1)),
            Piece("sep", format.StackElemSep) >>
         \o subs[i].out \o branches_labelled(subs, format, level, i + 1)

\* the branches, each after its label "#i" when the trace is on
RECURSIVE branches(_, _, _, _)
branches(subs, format, level, i) ==
    IF i > Len(subs) THEN <<>>
    ELSE (IF format.WithTrace
          THEN << Piece("sep", Repeat(format.PreStackSep, level)),
                  Piece("label", "#" \o ToString(i - 1)),
                  Piece("sep", format.StackElemSep) >>
          ELSE <<>>)
         \o subs[i].out \o branches(subs, format, level, i + 1)

RECURSIVE toCustomString(_, _, _, _, _)
RECURSIVE ToCustomString(_, _, _, _)
RECURSIVE ErrorString(_, _, _)

\* fmt.Sprint(err): Error() of a foreign error; for an error of this
\* library Format, that is printError, that is ToString(err, false)
ErrorString(h, e, fuel) ==
    IF h[e].kind = "foreign"
    THEN IF h[e].unwraps
         THEN LET inner == ErrorString(h, h[e].err, fuel) IN
              [abort |-> inner.abort, text |-> "wrapped: " \o inner.text]
         ELSE [abort |-> "", text |-> IF e = 1 THEN "something" ELSE "another"]
    ELSE IF fuel = 0 THEN [abort |-> "overflow", text |-> ""]
    ELSE LET r == ToCustomString(h, e, NewDefaultStringFormat(FALSE), fuel - 1) IN
         \* fmt recovers a panic of a Format method; a stack overflow is fatal
         IF r.abort = "panic"
         THEN [abort |-> "", text |-> "%!v(PANIC=Format method: runtime error)"]
         ELSE [abort |-> r.abort, text |-> Text(r.out)]

toCustomString(h, hierarchy, format, level, fuel) ==
    LET links == linkLoop(hierarchy, format, level, 1, 0) IN
    IF links.abort # "" THEN RenderAbort(links.abort)
    ELSE
    LET locations == IF format.WithTrace
                     THEN restLocations(hierarchy, format, level, links.stackIndex)
                     ELSE <<>>
        external == IF hierarchy.ErrExternal # Nil
                    THEN ErrorString(h, hierarchy.ErrExternal, fuel)
                    ELSE [abort |-> "", text |-> ""]
    IN  IF external.abort # "" THEN RenderAbort(external.abort)
        ELSE
        LET subs == [i \in 1..Len(hierarchy.SubHierarchies) |->
                        toCustomString(h, hierarchy.SubHierarchies[i], format,
                                       level + 1, fuel)]
            bad  == { i \in 1..Len(subs) : subs[i].abort # "" }
        IN  IF bad # {} THEN subs[CHOOSE i \in bad : \A j \in bad : i <= j]
            ELSE Rendered(
                   links.out \o locations
                     \o (IF hierarchy.ErrExternal # Nil
                         THEN << Piece("sep", Repeat(format.PreStackSep, level)),
                                 Piece("ext", external.text),
                                 Piece("sep", format.ErrorSep) >>
                         ELSE <<>>)
                     \o branches(subs, format, level, 1))

ToCustomString(h, err, format, fuel) ==
    LET frames == unpack(h, err, 0, Len(h) + 2) IN
    IF frames = PanicHierarchy THEN RenderAbort("panic")
    ELSE IF frames = OverflowHierarchy THEN RenderAbort("overflow")
    ELSE toCustomString(h, frames, format, 1, fuel)

\* ToString(err, withTrace)
RenderString(h, err, withTrace) ==
    ToCustomString(h, err, NewDefaultStringFormat(withTrace), Len(h) + 2)

\* reflect.TypeOf(err).String()
TypeOf(h, e) ==
    IF h[e].kind = "foreign"
    THEN IF h[e].unwraps THEN "*fmt.wrapError" ELSE "*errors.errorString"
    ELSE "*serr." \o h[e].kind

\* a JSON object is a function from its keys; NoKeys is the empty object
NoKeys == [k \in {} |-> ""]

\* faulty variant: every key is written
Key_always(present, key, value) == key :> value

Key(present, key, value) == IF present THEN key :> value ELSE NoKeys

wrapMap(link, WithTrace) ==
    Key(TRUE, "msg", Sprintf(link.Msg, link.MsgArgs))
      @@ Key(Cardinality(link.Fields) # 0, "fields", link.Fields)
      @@ Key(WithTrace, "src", DefaultLocationFormatFunc(link.CallerLocation))

RECURSIVE toCustomJSON(_, _, _, _)
toCustomJSON(h, hierarchy, WithTrace, fuel) ==
    LET external == IF hierarchy.ErrExternal # Nil
                    THEN ErrorString(h, hierarchy.ErrExternal, fuel)
                    ELSE [abort |-> "", text |-> ""]
        subs == [i \in 1..Len(hierarchy.SubHierarchies) |->
                    toCustomJSON(h, hierarchy.SubHierarchies[i], WithTrace, fuel)]
        bad  == { i \in 1..Len(subs) : subs[i].abort # "" }
    IN  IF external.abort # "" THEN RenderAbort(external.abort)
        ELSE IF bad # {} THEN subs[CHOOSE i \in bad : \A j \in bad : i <= j]
        ELSE Rendered(
               Key(WithTrace /\ Len(hierarchy.CallerLocations) > 0, "stack",
                   [i \in 1..Len(hierarchy.CallerLocations) |->
                       DefaultLocationFormatFunc(hierarchy.CallerLocations[i])])
                 @@ Key(Len(hierarchy.Links) > 0, "wrap",
                        [i \in 1..Len(hierarchy.Links) |->
                            wrapMap(hierarchy.Links[i], WithTrace)])
                 @@ Key(hierarchy.ErrExternal # Nil, "external", external.text)
                 @@ Key(hierarchy.ErrExternal # Nil /\ WithTrace, "type",
                        IF hierarchy.ErrExternal # Nil
                        THEN TypeOf(h, hierarchy.ErrExternal) ELSE "")
                 @@ Key(Len(hierarchy.SubHierarchies) > 0, "join",
                        [i \in 1..Len(subs) |-> subs[i].out]))

ToCustomJSON(h, err, WithTrace) ==
    LET frames == unpack(h, err, 0, Len(h) + 2) IN
    IF frames = PanicHierarchy THEN RenderAbort("panic")
    ELSE IF frames = OverflowHierarchy THEN RenderAbort("overflow")
    ELSE toCustomJSON(h, frames, WithTrace, Len(h) + 2)

ToJSON(h, err, withTrace) == ToCustomJSON(h, err, withTrace)

(***************************************************************************)
(* The state machine: a program that calls the construction surface.       *)
(* heap[1] and heap[2] are the sentinels ErrSomething and ErrAnother of    *)
(* src/serr_test.go.                                                       *)
(***************************************************************************)
Sentinels == <<foreignError(Nil, FALSE), foreignError(Nil, FALSE)>>

Errs == 1..Len(heap)

ErrsOrNil == 0..Len(heap)

Call(op, site, args, ann, res) ==
    [op |-> op, site |-> site, args |-> args, ann |-> ann, ret |-> res.ret,
     n0 |-> Len(heap)]

Fits(res, bound) ==
    /\ Len(res.heap) <= Len(Sentinels) + bound
    /\ \A e \in 1..Len(res.heap) : Len(res.heap[e].errs) <= MaxCauses

Return(op, site, args, ann, res, bound) ==
    /\ Fits(res, bound)
    /\ heap' = res.heap
    /\ last' = Call(op, site, args, ann, res)
    /\ UNCHANGED <<rev, procs>>

\* the goroutines: where each is in its call Join(jerr, err), and what it
\* has read of jerr.errs
Threads == {1, 2}

Idle == [pc |-> "idle", jerr |-> Nil, err |-> Nil, local |-> <<>>]

NoCalls ==
    [thr |-> [t \in Threads |-> Idle], order |-> <<>>, overlap |-> FALSE,
     base |-> <<>>]

Init ==
    /\ procs = NoCalls
    /\ rev \in {"serr", "part_003"}
    /\ heap = Sentinels
    /\ last = [op |-> "init", site |-> <<>>, args |-> <<>>, ann |-> EmptyAnn,
               ret |-> Nil, n0 |-> Len(Sentinels)]

\* New(msg), Errorf(msg, args...), Errors(fields, msg, args...)
NewAt(site, ann, bound) ==
    Return("New", site, <<>>, ann, CallNew(rev, site, heap, ann), bound)

\* Wrap(err)
WrapAt(site, err, bound) ==
    Return("Wrap", site, <<err>>, EmptyAnn, CallWrap(rev, site, heap, err), bound)

\* Wrapf(err, msg, args...), Wraps(err, fields, msg, args...)
WrapsAt(site, err, ann, bound) ==
    Return("Wraps", site, <<err>>, ann, CallWraps(rev, site, heap, err, ann), bound)

\* Join(errs...)
JoinAt(site, errs, bound) ==
    Return("Join", site, errs, EmptyAnn, CallJoin(rev, site, heap, errs), bound)

\* fmt.Errorf("...: %w", err): a foreign error with an Unwrap() error method
FmtErrorfAt(err, bound) ==
    Return("fmt.Errorf", <<>>, <<err>>, EmptyAnn,
           Alloc(heap, foreignError(err, TRUE)), bound)

\* argument lists of Join: a list of fewer than three behaves as one padded
\* with nils
ArgLists(S) == [1..3 -> S]

(***************************************************************************)
(* Spec: every function of the surface, on any errors, called from main.   *)
(***************************************************************************)
MainSite == <<4, 1>>

New == \E ann \in {EmptyAnn, FullAnn} : NewAt(MainSite, ann, MaxErrs)

Wrap == \E err \in ErrsOrNil : WrapAt(MainSite, err, MaxErrs)

Wraps ==
    \E err \in ErrsOrNil, ann \in {EmptyAnn, FullAnn} :
        WrapsAt(MainSite, err, ann, MaxErrs)

Join == \E errs \in ArgLists(ErrsOrNil) : JoinAt(MainSite, errs, MaxErrs)

FmtErrorf == \E err \in Errs : FmtErrorfAt(err, MaxErrs)

Next == New \/ Wrap \/ Wraps \/ Join \/ FmtErrorf

Spec == Init /\ [][Next]_vars

(***************************************************************************)
(* SpecChain: one chain, from every call site.  The chain starts with New  *)
(* or with a wrap of the sentinel (or of nil), and every further call      *)
(* wraps the error returned last.                                          *)
(***************************************************************************)
ChainNew ==
    /\ heap = Sentinels
    /\ \E site \in Sites, ann \in Anns : NewAt(site, ann, MaxChain)

ChainWrap ==
    \E site \in Sites, err \in {Nil, 1, Len(heap)} :
        /\ (err = Len(heap)) = (Len(heap) > Len(Sentinels))
        /\ WrapAt(site, err, MaxChain)

ChainWraps ==
    \E site \in Sites, err \in {Nil, 1, Len(heap)}, ann \in Anns :
        /\ (err = Len(heap)) = (Len(heap) > Len(Sentinels))
        /\ WrapsAt(site, err, ann, MaxChain)

\* the chain passes through a foreign wrapper
ChainFmtErrorf ==
    \E err \in {1, Len(heap)} :
        /\ (err = Len(heap)) = (Len(heap) > Len(Sentinels))
        /\ FmtErrorfAt(err, MaxChain)

NextChain == ChainNew \/ ChainWrap \/ ChainWraps \/ ChainFmtErrorf

SpecChain == Init /\ [][NextChain]_vars

(***************************************************************************)
(* SpecTree: errors made in f, called from main or from g, then merged     *)
(* three at a time in g.  No Join is merged into another one here, so the  *)
(* causes form a tree.                                                     *)
(***************************************************************************)
LeafSites == {<<8, 3, 1>>, <<8, 5, 2, 1>>}

JoinSite == <<6, 2, 1>>

NotJoin == {e \in Errs : heap[e].kind # "joinError"}

TreeNew == \E site \in LeafSites, ann \in {EmptyAnn, FullAnn} : NewAt(site, ann, MaxTree)

TreeWraps ==
    \E site \in LeafSites, err \in Errs, ann \in {EmptyAnn, FullAnn} :
        WrapsAt(site, err, ann, MaxTree)

TreeJoin ==
    \E errs \in ArgLists(NotJoin) : JoinAt(JoinSite, errs, MaxTree + 1)

NextTree == TreeNew \/ TreeWraps \/ TreeJoin

SpecTree == Init /\ [][NextTree]_vars

(***************************************************************************)
(* SpecMerge: an error made in f, a first merge made in g, then merges     *)
(* made in main whose first argument is a Join.                            *)
(***************************************************************************)
MergeNew ==
    /\ NotJoin = Errs
    /\ \E site \in LeafSites, ann \in {EmptyAnn, FullAnn} : NewAt(site, ann, MaxMerge)

MergeJoin ==
    \E errs \in ArgLists(NotJoin \cup {Nil}) : JoinAt(JoinSite, errs, MaxMerge)

MergeAppend ==
    \E errs \in ArgLists(ErrsOrNil) :
        /\ errs[1] # Nil /\ heap[errs[1]].kind = "joinError"
        /\ JoinAt(MainSite, errs, MaxMerge)

NextMerge == MergeNew \/ MergeJoin \/ MergeAppend

SpecMerge == Init /\ [][NextMerge]_vars


(***************************************************************************)
(* SpecDepth: the Depth functions called from main with a skip of the     *)
(* program's choice.  A skip of the stack's depth less one leaves a        *)
(* capture of one entry, a skip of the stack's depth an empty one.         *)
(***************************************************************************)
DepthSites == {MainSite}

DepthError ==
    \E site \in DepthSites, skip \in 0..MaxSkip, ann \in {EmptyAnn, FullAnn} :
        Return("ErrorDepths", site, <<>>, ann,
               CallErrorDepths(rev, site, skip, heap, ann), MaxErrs)

DepthWraps ==
    \E site \in DepthSites, skip \in 0..MaxSkip, err \in ErrsOrNil :
        Return("WrapDepths", site, <<err>>, FullAnn,
               CallWrapDepths(rev, site, skip, heap, err, FullAnn), MaxErrs)

DepthJoin ==
    \E site \in DepthSites, skip \in 0..MaxSkip, e1 \in ErrsOrNil,
       e2 \in ErrsOrNil :
        Return("JoinDepth", site, <<e1, e2, Nil>>, EmptyAnn,
               CallJoinDepth(rev, site, skip, heap, <<e1, e2, Nil>>), MaxErrs)

NextDepth == DepthError \/ DepthWraps \/ DepthJoin

SpecDepth == Init /\ [][NextDepth]_vars


(***************************************************************************)
(* SpecRender: a Root and the wraps of it, made in g or in f called from   *)
(* g, with the messages and the fields of the end-to-end example.          *)
(***************************************************************************)
RootFailAnn == Annotation(NoFields, "root fail", <<>>)

MidAnn == Annotation({<<"k", "v">>}, "mid", <<>>)

TopAnn == Annotation(NoFields, "top", <<>>)

RenderSites == {<<6, 2, 1>>, <<7, 2, 1>>, <<8, 5, 2, 1>>}

RenderNew ==
    /\ heap = Sentinels
    /\ \E site \in RenderSites, ann \in {RootFailAnn, MidAnn, TopAnn} :
          NewAt(site, ann, MaxChain)

RenderWraps ==
    /\ Len(heap) > Len(Sentinels)
    /\ \E site \in RenderSites, ann \in {RootFailAnn, MidAnn, TopAnn} :
          WrapsAt(site, Len(heap), ann, MaxChain)

NextRender == RenderNew \/ RenderWraps

SpecRender == Init /\ [][NextRender]_vars


(***************************************************************************)
(* SpecRace: a Join and the errors to merge into it are made, then two     *)
(* goroutines call Join(jerr, err) on that same Join.  A call takes the    *)
(* append branch of JoinDepth; its statement jerr.errs = append(jerr.errs, *)
(* err) is a read and a write of jerr.errs without synchronisation, and    *)
(* the steps of the two calls interleave in every order.                   *)
(***************************************************************************)
Joins == { e \in Errs : heap[e].kind = "joinError" }

RaceNew ==
    /\ procs = NoCalls
    /\ NewAt(MainSite, EmptyAnn, MaxRace)

RaceJoin ==
    /\ procs = NoCalls
    /\ Joins = {}
    /\ \E e1 \in NotJoin, e2 \in NotJoin :
          JoinAt(MainSite, <<e1, e2, Nil>>, MaxRace)

\* the call up to the loop over errs[1:]: errs[0] is a *joinError
RaceCall ==
    \E t \in Threads, jerr \in Joins, err \in NotJoin :
        /\ procs.thr[t].pc = "idle"
        /\ procs' =
              [thr |-> [procs.thr EXCEPT ![t] =
                           [pc |-> "loop", jerr |-> jerr, err |-> err,
                            local |-> <<>>]],
               order |-> Append(procs.order, t),
               overlap |-> \/ procs.overlap
                           \/ \E u \in Threads :
                                 procs.thr[u].pc \in {"loop", "append"},
               base |-> IF procs.order = <<>> THEN heap[jerr].errs
                        ELSE procs.base]
        /\ UNCHANGED <<rev, heap, last>>

RaceRead ==
    \E t \in Threads :
        /\ procs.thr[t].pc = "loop"
        /\ procs' = [procs EXCEPT
                        !.thr[t].pc = "append",
                        !.thr[t].local = JoinAppendRead(heap, procs.thr[t].jerr)]
        /\ UNCHANGED <<rev, heap, last>>

\* the write, and the return of jerr
RaceWrite ==
    \E t \in Threads :
        /\ procs.thr[t].pc = "append"
        /\ heap' = JoinAppendWrite(heap, procs.thr[t].jerr, procs.thr[t].local,
                                   procs.thr[t].err)
        /\ last' = Call("Join", MainSite,
                        <<procs.thr[t].jerr, procs.thr[t].err, Nil>>, EmptyAnn,
                        [ret |-> procs.thr[t].jerr])
        /\ procs' = [procs EXCEPT !.thr[t].pc = "done"]
        /\ UNCHANGED rev

NextRace == RaceNew \/ RaceJoin \/ RaceCall \/ RaceRead \/ RaceWrite

SpecRace == Init /\ [][NextRace]_vars

(***************************************************************************)
(* The host's traversal of the cause links: errors.Is(err, target) finds   *)
(* target when it is err itself or one of the errors that repeated         *)
(* Unwrap() error / Unwrap() []error calls return.                         *)
(***************************************************************************)
Unwrapped(h, e) ==
    IF HasUnwrap(h, e) THEN {h[e].err} \ {Nil}
    ELSE IF HasUnwrapMulti(h, e) THEN Range(h[e].errs)
    ELSE {}

RECURSIVE Chain(_, _)
Chain(h, seen) ==
    LET more == seen \cup UNION { Unwrapped(h, e) : e \in seen } IN
    IF more = seen THEN seen ELSE Chain(h, more)

Is(h, err, target) == err # Nil /\ target \in Chain(h, {err})

LiveArgs == Live(last.args)

(***************************************************************************)
(* C1  Round-trip membership.  Every call of Wrap, Wraps or Join that      *)
(* returns an error leaves each of its non-nil arguments reachable from    *)
(* the returned error through the Unwrap links, and no later call removes  *)
(* an error from what the traversal finds from another: so from            *)
(* Join(Wrap(a), b) it finds both a and b.                                 *)
(***************************************************************************)
C1_Step ==
    /\ (last'.op \in {"Wrap", "Wraps", "Join"} /\ last'.ret # Nil)
          => \A i \in 1..Len(last'.args) :
                last'.args[i] # Nil => Is(heap', last'.ret, last'.args[i])
    /\ \A e \in 1..Len(heap), t \in 1..Len(heap) :
          Is(heap, e, t) => Is(heap', e, t)

C1_RoundTrip == [][C1_Step]_vars

\* err = Join(Wrap(a), b) with the sentinels a and b
C1_Witness ==
    /\ last.op = "Join" /\ last.ret # Nil
    /\ Len(LiveArgs) = 2
    /\ LiveArgs[2] = 2
    /\ heap[LiveArgs[1]].kind = "rootError" /\ heap[LiveArgs[1]].err = 1
    /\ Is(heap, last.ret, 1) /\ Is(heap, last.ret, 2)

(***************************************************************************)
(* C2  Join with at least two live arguments.  As claimed: when the first  *)
(* LIVE argument is a Join, the other live arguments are appended to it in *)
(* place, in order, and it is returned; otherwise a new Join with a new    *)
(* capture and exactly the live arguments is returned.                     *)
(***************************************************************************)
JoinCase(first) ==
    LET live == Live(last'.args) IN
    IF first # Nil /\ heap[first].kind = "joinError"
    THEN /\ last'.ret = first
         /\ Len(heap') = Len(heap)
         /\ heap'[first].errs = heap[first].errs \o SelectSeq(
                SubSeq(last'.args,
                       1 + (CHOOSE i \in 1..Len(last'.args) : last'.args[i] = first
                               /\ \A j \in 1..(i - 1) : last'.args[j] # first),
                       Len(last'.args)),
                LAMBDA e : e # Nil)
    ELSE /\ last'.ret = Len(heap) + 1
         /\ Len(heap') = Len(heap) + 1
         /\ heap'[last'.ret].kind = "joinError"
         /\ heap'[last'.ret].callers = last'.site
         /\ heap'[last'.ret].errs = live

C2_Original_Step ==
    (last'.op = "Join" /\ Len(Live(last'.args)) >= 2)
        => JoinCase(Live(last'.args)[1])

C2_Amended_Step ==
    (last'.op = "Join" /\ Len(Live(last'.args)) >= 2)
        => JoinCase(last'.args[1])

C3_NonEmptyCauses ==
    /\ \A e \in Errs : heap[e].kind = "joinError" => Len(heap[e].errs) >= 1
    /\ (last.op = "Join" /\ Len(LiveArgs) = 0)
          => (last.ret = Nil /\ Len(heap) = last.n0)
    /\ (last.op = "Join" /\ Len(LiveArgs) = 1)
          => /\ last.ret = last.n0 + 1
             /\ Len(heap) = last.n0 + 1
             /\ heap[last.ret].kind = "rootError"
             /\ heap[last.ret].err = LiveArgs[1]

\* Join(nil, j, nil) with j a Join: a Root around j
C3_Witness ==
    /\ last.op = "Join" /\ Len(LiveArgs) = 1
    /\ last.args[1] = Nil
    /\ heap[LiveArgs[1]].kind = "joinError"
    /\ heap[last.ret].kind = "rootError"

(***************************************************************************)
(* C5  Wrap variant selection.  A wrap of a non-nil cause returns a Wrap   *)
(* (an annotation, no capture) exactly when some error of the cause's      *)
(* single-cause chain, the cause included, is a Root or Join with a        *)
(* non-empty capture; otherwise it returns a Root with a capture taken at  *)
(* the call site.  Either way the cause is the new error's cause.          *)
(***************************************************************************)
RECURSIVE SingleChain(_, _)
SingleChain(h, e) ==
    IF e = Nil THEN {}
    ELSE IF HasUnwrap(h, e) THEN {e} \cup SingleChain(h, h[e].err)
    ELSE {e}

\* the chain as Cause walks it: it ends at the first error with a capture
AnchorInChain(h, e) ==
    \E a \in SingleChain(h, e) :
        h[a].kind \in {"rootError", "joinError"} /\ h[a].callers # <<>>

C5_WrapVariant ==
    (last.op \in {"Wrap", "Wraps"} /\ last.args[1] # Nil)
       => LET cause == last.args[1]
              new == heap[last.ret]
          IN  /\ last.ret = last.n0 + 1
              /\ new.err = cause
              /\ IF AnchorInChain(heap, cause)
                 THEN new.kind = "wrapError" /\ new.callers = <<>>
                      /\ new.data # NilData
                 ELSE new.kind = "rootError" /\ new.callers = last.site

\* a wrap of a foreign wrapper around an error with a capture: the anchor is
\* one hop below the cause
C5_Witness ==
    /\ last.op = "Wraps" /\ last.args[1] # Nil
    /\ heap[last.args[1]].kind = "foreign"
    /\ heap[last.args[1]].unwraps
    /\ heap[last.ret].kind = "wrapError"

C8_AnchorExists ==
    \A e \in Errs :
        heap[e].kind # "foreign"
           => /\ Cause(heap, e) # Nil
              /\ heap[Cause(heap, e)].kind \in {"rootError", "joinError"}
              /\ Len(heap[Cause(heap, e)].callers) > 0

\* a Wrap whose anchor is not itself, and a Join
C8_Witness ==
    /\ \E e \in Errs : heap[e].kind = "wrapError" /\ Cause(heap, e) # e
    /\ \E e \in Errs : heap[e].kind = "joinError" /\ Cause(heap, e) = e

(***************************************************************************)
(* C7  A wrap of a foreign cause attaches its message and fields.  For a   *)
(* cause with no anchor in its chain and a non-empty annotation, the       *)
(* hierarchy of Wraps(cause, fields, msg, args...) has a link with that    *)
(* message, those arguments and those fields at the location of the call,  *)
(* and its external error is the cause.                                    *)
(***************************************************************************)
NonEmpty(ann) == ann.msg # "" \/ ann.msgArgs # <<>> \/ ann.fields # {}

LinkOf(ann, site) ==
    WrapLink(ann.msg, ann.msgArgs, ann.fields, getLocation(site[1]))

C7_ForeignWrapAttaches ==
    (/\ last.op = "Wraps" /\ last.args[1] # Nil
     /\ ~AnchorInChain(heap, last.args[1])
     /\ NonEmpty(last.ann))
       => LET hierarchy == Unpack(heap, last.ret) IN
          /\ LinkOf(last.ann, last.site) \in Range(hierarchy.Links)
          /\ hierarchy.ErrExternal = last.args[1]

(***************************************************************************)
(* C9  Flattening.  A chain of N >= 1 wraps, each with a non-empty         *)
(* annotation, over one Root, whatever the call sites: the hierarchy has   *)
(* no sub-hierarchies and its links start with the N wrap links, from the  *)
(* outermost (last applied) wrap to the innermost.                         *)
(***************************************************************************)
LinkOfData(d) == WrapLink(d.msg, d.msgArgs, d.fields, getLocation(d.caller))

NonEmptyData(d) == d.msg # "" \/ d.msgArgs # <<>> \/ d.fields # {}

Top == Len(heap)

FirstNew == Len(Sentinels) + 1

\* heap[FirstNew] is a Root without a cause and every later error is a Wrap,
\* with a non-empty annotation, of the error before it
IsWrapChain ==
    /\ Top > FirstNew
    /\ heap[FirstNew].kind = "rootError" /\ heap[FirstNew].err = Nil
    /\ \A e \in (FirstNew + 1)..Top :
          /\ heap[e].kind = "wrapError" /\ heap[e].err = e - 1
          /\ NonEmptyData(heap[e].data[1])

\* the wrap links, outermost first
WrapLinks == [k \in 1..(Top - FirstNew) |-> LinkOfData(heap[Top + 1 - k].data[1])]

C9_Flattening ==
    IsWrapChain
       => LET hierarchy == Unpack(heap, Top) IN
          /\ hierarchy.SubHierarchies = <<>>
          /\ Len(hierarchy.Links) >= Len(WrapLinks)
          /\ SubSeq(hierarchy.Links, 1, Len(WrapLinks)) = WrapLinks

(***************************************************************************)
(* What the frame walk does deliver: when every wrap is made in a function *)
(* that is on the Root's captured stack, the wraps going from the Root's   *)
(* frame outward, the hierarchy is flat and its links are the wrap links,  *)
(* outermost first, followed by the Root's own link.                       *)
(***************************************************************************)
\* position, in the Root's capture, of the frame that called the function
\* the wrap e was made in (0 when that frame is not in the capture)
FramePos(e) ==
    LET c  == heap[FirstNew].callers
        cc == heap[e].data[1].callerCaller
        at == {q \in 2..Len(c) : c[q] = cc}
    IN IF at = {} THEN 0 ELSE CHOOSE q \in at : \A r \in at : r <= q

\* every wrap was made in a function of the Root's captured stack, the
\* wraps going from the Root's frame outward
Propagated ==
    /\ \A e \in (FirstNew + 1)..Top : FramePos(e) >= 2
    /\ \A e \in (FirstNew + 2)..Top : FramePos(e) >= FramePos(e - 1)

RootLinks ==
    LET d == heap[FirstNew].data IN
    IF d # NilData /\ NonEmptyData(d[1]) THEN <<LinkOfData(d[1])>> ELSE <<>>

C9_Propagated ==
    (IsWrapChain /\ Propagated)
       => LET hierarchy == Unpack(heap, Top) IN
          /\ hierarchy.SubHierarchies = <<>>
          /\ hierarchy.Links = WrapLinks \o RootLinks

C9_PropagatedWitness ==
    /\ IsWrapChain /\ Propagated /\ Top = FirstNew + 2
    /\ FramePos(Top) > FramePos(Top - 1)

(***************************************************************************)
(* C4  Degenerate merge.  For a non-nil e1, Join(nil, e1, nil) made at the *)
(* call site of Wrap(e1) reconstructs to the hierarchy of Wrap(e1).        *)
(***************************************************************************)
\* the Join made instead of the last call, in the state that call was made in
JoinInstead ==
    CallJoin(rev, last.site, Take(heap, last.n0), <<Nil, last.args[1], Nil>>)

C4_DegenerateMerge ==
    (last.op = "Wrap" /\ last.args[1] # Nil)
       => LET j == JoinInstead IN
          Unpack(heap, last.ret) = Unpack(j.heap, j.ret)

(***************************************************************************)
(* C10  Join branching.  Join(e1, e2, e3) of three non-nil errors, none a  *)
(* Join, reconstructs to one node that is not flattened: it has no link    *)
(* and no external error of its own, its frames are frames of the Join's   *)
(* capture, and it has exactly three sub-hierarchies, the i-th being the   *)
(* reconstruction of ei below the Join's frame.                            *)
(***************************************************************************)
JoinOfThree ==
    /\ last.op = "Join"
    /\ \A i \in 1..3 : last.args[i] # Nil /\ heap[last.args[i]].kind # "joinError"

C10_JoinBranching ==
    JoinOfThree
       => LET hierarchy == Unpack(heap, last.ret)
              callers   == heap[last.ret].callers
          IN  /\ Len(hierarchy.SubHierarchies) = 3
              /\ \A i \in 1..3 :
                    hierarchy.SubHierarchies[i]
                       = unpack(heap, last.args[i], callers[2], Len(heap) + 1)
              /\ hierarchy.Links = <<>>
              /\ hierarchy.ErrExternal = Nil
              /\ \A loc \in Range(hierarchy.CallerLocations) :
                    \E pc \in Range(callers) : loc = getLocation(pc)

\* three different errors merged, one of them with links of its own, one foreign
C10_Witness ==
    /\ JoinOfThree
    /\ Cardinality(Range(last.args)) = 3
    /\ LET hierarchy == Unpack(heap, last.ret) IN
       /\ Len(hierarchy.SubHierarchies) = 3
       /\ \E i \in 1..3 : hierarchy.SubHierarchies[i].Links # <<>>
       /\ \E i \in 1..3 : hierarchy.SubHierarchies[i].ErrExternal # Nil

(***************************************************************************)
(* C11  Join append shape.  J = Join(e1, e2) followed by Join(J, e3), for  *)
(* non-nil e1, e2, e3 that are no Joins: the second call returns J with    *)
(* the capture of the first merge, and J reconstructs to what              *)
(* Join(e1, e2, e3) made at the place of the first merge reconstructs to:  *)
(* one node with three branches in the order e1, e2, e3.                   *)
(***************************************************************************)
\* the last call made a new Join of two errors that are no Joins
FreshJoinOfTwo ==
    /\ last.op = "Join" /\ last.ret = last.n0 + 1
    /\ heap[last.ret].kind = "joinError"
    /\ Len(heap[last.ret].errs) = 2
    /\ \A i \in 1..2 : heap[heap[last.ret].errs[i]].kind # "joinError"

\* the next call merges one more error, no Join, into it
AppendsThird ==
    /\ last'.op = "Join" /\ last'.args[1] = last.ret
    /\ Len(Live(last'.args)) = 2
    /\ heap[Live(last'.args)[2]].kind # "joinError"

C11_Step ==
    (FreshJoinOfTwo /\ AppendsThird)
       => LET J  == last.ret
              e  == heap[J].errs \o <<Live(last'.args)[2]>>
              k  == CallJoin(rev, heap[J].callers, heap, e)
              hierarchy == Unpack(heap', J)
          IN  /\ last'.ret = J
              /\ heap'[J].callers = last.site
              /\ hierarchy = Unpack(k.heap, k.ret)
              /\ Len(hierarchy.SubHierarchies) = 3
              /\ \A i \in 1..3 :
                    hierarchy.SubHierarchies[i]
                       = unpack(heap', e[i], last.site[2], Len(heap') + 1)

C11_JoinAppendShape == [][C11_Step]_vars

\* Join(e1, e2) in g, then Join(J, e3) in main: J has three causes and the
\* capture taken in g
C11_Witness ==
    /\ last.op = "Join" /\ last.site = MainSite
    /\ last.ret = last.args[1] /\ last.n0 = Len(heap)
    /\ Len(Live(last.args)) = 2
    /\ Len(heap[last.ret].errs) = 3
    /\ heap[last.ret].callers = JoinSite
    /\ \A i \in 1..3 : heap[heap[last.ret].errs[i]].kind # "joinError"
    /\ Len(Unpack(heap, last.ret).SubHierarchies) = 3

(***************************************************************************)
(* C12  Merging loses no context.  For a new Join of three errors, every   *)
(* link and every external error of the hierarchy of an argument alone is  *)
(* found in the branch of that argument in the hierarchy of the Join.      *)
(***************************************************************************)
RECURSIVE AllLinks(_)
AllLinks(hierarchy) ==
    Range(hierarchy.Links)
       \cup UNION { AllLinks(hierarchy.SubHierarchies[i]) :
                       i \in 1..Len(hierarchy.SubHierarchies) }

RECURSIVE AllExternal(_)
AllExternal(hierarchy) ==
    (IF hierarchy.ErrExternal # Nil THEN {hierarchy.ErrExternal} ELSE {})
       \cup UNION { AllExternal(hierarchy.SubHierarchies[i]) :
                       i \in 1..Len(hierarchy.SubHierarchies) }

C12_NoContextLost ==
    JoinOfThree
       => LET hierarchy == Unpack(heap, last.ret) IN
          /\ Len(hierarchy.SubHierarchies) = 3
          /\ \A i \in 1..3 :
                LET alone == Unpack(heap, last.args[i]) IN
                /\ AllLinks(alone) \subseteq AllLinks(hierarchy.SubHierarchies[i])
                /\ AllExternal(alone)
                      \subseteq AllExternal(hierarchy.SubHierarchies[i])

(***************************************************************************)
(* C13  Dedup.  In the hierarchy of every error returned, and in every     *)
(* sub-hierarchy of it, no two adjacent call frames are the same location. *)
(***************************************************************************)
RECURSIVE NoAdjacentRepeat(_)
NoAdjacentRepeat(hierarchy) ==
    /\ \A i \in 1..(Len(hierarchy.CallerLocations) - 1) :
          hierarchy.CallerLocations[i] # hierarchy.CallerLocations[i + 1]
    /\ \A i \in 1..Len(hierarchy.SubHierarchies) :
          NoAdjacentRepeat(hierarchy.SubHierarchies[i])

C13_Dedup == last.ret # Nil => NoAdjacentRepeat(Unpack(heap, last.ret))


(***************************************************************************)
(* C14: neither the reconstructor nor a renderer panics, on any error      *)
(* value the program can hold (nil, a Root without cause, an anchor whose  *)
(* capture has one entry or none).                                         *)
(***************************************************************************)
Panics(h, e) ==
    \/ Unpack(h, e) = PanicHierarchy
    \/ \E withTrace \in BOOLEAN :
          \/ RenderString(h, e, withTrace).abort = "panic"
          \/ ToJSON(h, e, withTrace).abort = "panic"

\* C14: no input error value makes Unpack, ToString or ToJSON panic
C14_NoFatal == \A e \in ErrsOrNil : ~Panics(heap, e)


(***************************************************************************)
(* C15: reconstruction and rendering terminate on every error value that   *)
(* New, Wrap and Join calls can build.                                     *)
(***************************************************************************)
NeverEnds(h, e) ==
    \/ Unpack(h, e) = OverflowHierarchy
    \/ \E withTrace \in BOOLEAN :
          \/ RenderString(h, e, withTrace).abort = "overflow"
          \/ ToJSON(h, e, withTrace).abort = "overflow"

\* C15: Unpack, ToString and ToJSON terminate on every error value built
\* by a finite sequence of New, Wrap and Join calls
C15_Terminates == \A e \in ErrsOrNil : ~NeverEnds(heap, e)


(***************************************************************************)
(* C16: what a call may change in the errors that exist before it.         *)
(***************************************************************************)
\* e has the fields it had, and its causes of before followed by new ones
Appended(h, h2, e) ==
    /\ h2[e] = [h[e] EXCEPT !.errs = h2[e].errs]
    /\ Len(h2[e].errs) >= Len(h[e].errs)
    /\ Take(h2[e].errs, Len(h[e].errs)) = h[e].errs

\* an existing error changes only if it is a Join and the first argument of
\* a Join call, and then by an append to its causes
FrameStep ==
    \A e \in 1..Len(heap) :
        /\ e <= Len(heap')
        /\ heap'[e] # heap[e] =>
              /\ heap[e].kind = "joinError"
              /\ last'.op = "Join" /\ last'.args[1] = e
              /\ Appended(heap, heap', e)

\* the wrapped cause and the arguments of a Join after the first are
\* left as they were
ArgsStep ==
    /\ last'.op \in {"Wrap", "Wraps"} /\ last'.args[1] # Nil
          => heap'[last'.args[1]] = heap[last'.args[1]]
    /\ last'.op = "Join"
          => \A i \in 2..Len(last'.args) :
                last'.args[i] # Nil => heap'[last'.args[i]] = heap[last'.args[i]]

C16_Step == FrameStep /\ ArgsStep

\* C16: no call changes an existing Root or Wrap; an existing Join changes
\* only by the append of a Join call whose first argument it is; a wrapped
\* cause and a non-first Join argument are left unchanged
C16_Frame == [][C16_Step]_vars


(***************************************************************************)
(* C17: the end-to-end example, r = New("root fail"),                      *)
(* w1 = Wraps(r, {"k": "v"}, "mid"), w2 = Wrapf(w1, "top"), all three      *)
(* made in one function, rendered without trace.                           *)
(***************************************************************************)
AnnOf(e) ==
    Annotation(heap[e].data[1].fields, heap[e].data[1].msg,
               heap[e].data[1].msgArgs)

\* last.ret is w2 of the example
EndToEnd ==
    /\ last.op = "Wraps" /\ last.ret = Len(Sentinels) + 3
    /\ LET w2 == last.ret
           w1 == heap[w2].err
           r  == heap[w1].err
       IN  /\ heap[r].kind = "rootError" /\ heap[r].err = Nil
           /\ AnnOf(r) = RootFailAnn /\ AnnOf(w1) = MidAnn /\ AnnOf(w2) = TopAnn
           /\ \A e \in {r, w1, w2} :
                 /\ FuncOf(heap[e].data[1].caller) = "main.g"
                 /\ heap[e].data[1].callerCaller = 2

RECURSIVE ConciseLinks(_, _)
ConciseLinks(links, ErrorSep) ==
    IF links = <<>> THEN ""
    ELSE Sprintf(Head(links).Msg, Head(links).MsgArgs)
           \o (IF Head(links).Fields # NoFields
               THEN DefaultFieldFormat(Head(links).Fields) ELSE "")
           \o ErrorSep \o ConciseLinks(Tail(links), ErrorSep)

RECURSIVE Concise(_, _, _)
RECURSIVE ConciseAll(_, _, _)
ConciseAll(h, subs, ErrorSep) ==
    IF subs = <<>> THEN ""
    ELSE Concise(h, Head(subs), ErrorSep) \o ConciseAll(h, Tail(subs), ErrorSep)

Concise(h, hierarchy, ErrorSep) ==
    ConciseLinks(hierarchy.Links, ErrorSep)
       \o (IF hierarchy.ErrExternal # Nil
           THEN ErrorString(h, hierarchy.ErrExternal, Len(h) + 2).text \o ErrorSep
           ELSE "")
       \o ConciseAll(h, hierarchy.SubHierarchies, ErrorSep)

NoLocation(h, e) ==
    LET r == RenderString(h, e, FALSE) IN
    r.abort = "" =>
       /\ \A i \in 1..Len(r.out) :
             /\ r.out[i].kind \in {"msg", "fields", "ext", "sep"}
             /\ r.out[i].kind = "sep" => r.out[i].text \in {"", ": "}
       /\ Text(r.out) = Concise(h, Unpack(h, e), ": ")

\* C18: for every error value ToString(err, false) holds no frame, no link
\* location and no branch label, only messages, field dumps and external
\* text in hierarchy order, each followed by the error separator
C18_NoTraceNoLocation == \A e \in ErrsOrNil : NoLocation(heap, e)

HasPiece(out, kind) == \E i \in 1..Len(out) : out[i].kind = kind /\ out[i].text # ""

\* an error whose rendering with trace has frames, link locations and branch
\* labels, and whose rendering without trace has a message, a field dump
\* and an external error's text
C18_Witness ==
    \E e \in Errs :
        /\ RenderString(heap, e, TRUE).abort = ""
        /\ HasPiece(RenderString(heap, e, TRUE).out, "loc")
        /\ HasPiece(RenderString(heap, e, TRUE).out, "label")
        /\ Len(Unpack(heap, e).Links) > 0
        /\ HasPiece(RenderString(heap, e, FALSE).out, "msg")
        /\ HasPiece(RenderString(heap, e, FALSE).out, "fields")
        /\ HasPiece(RenderString(heap, e, FALSE).out, "ext")


(***************************************************************************)
(* C19: the keys of the document of a hierarchy node.                      *)
(***************************************************************************)
RECURSIVE Shape(_, _, _)
Shape(doc, hierarchy, WithTrace) ==
    /\ DOMAIN doc \subseteq {"stack", "wrap", "external", "type", "join"}
    /\ "stack" \in DOMAIN doc
          <=> (WithTrace /\ Len(hierarchy.CallerLocations) > 0)
    /\ "wrap" \in DOMAIN doc <=> Len(hierarchy.Links) > 0
    /\ "external" \in DOMAIN doc <=> hierarchy.ErrExternal # Nil
    /\ "type" \in DOMAIN doc <=> (WithTrace /\ hierarchy.ErrExternal # Nil)
    /\ "join" \in DOMAIN doc <=> Len(hierarchy.SubHierarchies) > 0
    /\ "wrap" \in DOMAIN doc =>
          /\ Len(doc.wrap) = Len(hierarchy.Links)
          /\ \A i \in 1..Len(hierarchy.Links) :
                doc.wrap[i].msg = Sprintf(hierarchy.Links[i].Msg,
                                          hierarchy.Links[i].MsgArgs)
    /\ "join" \in DOMAIN doc =>
          /\ Len(doc.join) = Len(hierarchy.SubHierarchies)
          /\ \A i \in 1..Len(hierarchy.SubHierarchies) :
                Shape(doc.join[i], hierarchy.SubHierarchies[i], WithTrace)

\* C19: the document of ToJSON has only the keys stack, wrap, external,
\* type and join; stack iff trace and frames, wrap iff links (an entry per
\* link, in order), external iff an external error, type iff trace and an
\* external error, join iff branches (a document per branch, in order)
C19_DocumentShape ==
    \A e \in ErrsOrNil, withTrace \in BOOLEAN :
        ToJSON(heap, e, withTrace).abort = ""
           => Shape(ToJSON(heap, e, withTrace).out, Unpack(heap, e), withTrace)

\* a Join whose document with trace has stack, wrap and join, a branch of it
\* external and type, and whose document without trace has no stack
C19_Witness ==
    \E e \in Errs :
        /\ ToJSON(heap, e, TRUE).abort = ""
        /\ {"stack", "wrap", "join"} \subseteq DOMAIN ToJSON(heap, e, TRUE).out
        /\ \E i \in 1..Len(ToJSON(heap, e, TRUE).out.join) :
              {"external", "type"}
                 \subseteq DOMAIN ToJSON(heap, e, TRUE).out.join[i]
        /\ DOMAIN ToJSON(heap, e, FALSE).out = {"wrap", "join"}


(***************************************************************************)
(* C20: where the annotation cursor of a reconstruction starts.            *)
(***************************************************************************)
\* the start as described: the input when it exposes an annotation itself,
\* the next annotated error below it otherwise
CursorStart(h, err) ==
    IF IsExtraStackError(h, err) /\ h[err].data # NilData THEN err
    ELSE NextExtraStackError(h, err)

\* C20: for every input with an anchor the annotation cursor starts at the
\* input when it exposes a non-empty annotation, and at the next annotated
\* error below it otherwise, whatever the type of the input
C20_CursorStart ==
    \A e \in Errs :
        Cause(heap, e) # Nil => firstExtraStackErr(heap, e) = CursorStart(heap, e)


(***************************************************************************)
(* C21, C22: the floor of a reconstruction call.  The calls with a floor   *)
(* are those of the recursion: for an anchor with a capture of two entries *)
(* or more, one call per cause, with the anchor's second entry as floor.   *)
(***************************************************************************)
CausesOf(h, a) ==
    IF HasUnwrap(h, a) THEN <<h[a].err>>
    ELSE IF HasUnwrapMulti(h, a) THEN h[a].errs ELSE <<>>

\* the calls unpack(err, parentPC) made for the causes of the anchors of h,
\* those on an input with an anchor
FloorCalls(h) ==
    UNION { { [err |-> CausesOf(h, a)[i], parentPC |-> h[a].callers[2]] :
                i \in 1..Len(CausesOf(h, a)) } :
            a \in { b \in 1..Len(h) :
                       IsFullStackError(h, b) /\ Len(h[b].callers) >= 2 } }

WithAnchor(h) ==
    { c \in FloorCalls(h) : c.err # Nil /\ Cause(h, c.err) # Nil }

CaptureOf(h, err) == h[Cause(h, err)].callers

Occurs(callers, parentPC) == \E i \in 1..Len(callers) : callers[i] = parentPC

\* the highest index at which the floor occurs
FloorIndex(callers, parentPC) ==
    CHOOSE i \in 1..Len(callers) :
        /\ callers[i] = parentPC
        /\ \A j \in 1..Len(callers) : callers[j] = parentPC => j <= i

\* the frames and links of the call's own walk, before its causes are added
OwnWalk(h, err, parentPC) ==
    walkCallers(h, CaptureOf(h, err), callerStart(CaptureOf(h, err), parentPC),
                firstExtraStackErr(h, err), UnpackHierarchy(Nil, <<>>, <<>>, <<>>))

FloorRule(h, c) ==
    LET callers == CaptureOf(h, c.err)
        floor   == FloorIndex(callers, c.parentPC)
    IN  Occurs(callers, c.parentPC) =>
           /\ callerStart(callers, c.parentPC) = floor - 1
           /\ \A i \in floor..Len(callers) :
                 /\ getLocation(callers[i])
                       \notin Range(OwnWalk(h, c.err, c.parentPC).CallerLocations)
                 /\ ~Aborted(unpack(h, c.err, c.parentPC, Len(h) + 1)) =>
                       getLocation(callers[i])
                          \notin Range(unpack(h, c.err, c.parentPC,
                                              Len(h) + 1).CallerLocations)
           /\ \A i \in 1..(floor - 1) :
                 getLocation(callers[i])
                    \in Range(OwnWalk(h, c.err, c.parentPC).CallerLocations)

\* captures of a recursive function: a program counter may occur twice
Recursive == UNION { [1..n -> {1, 2}] : n \in 0..MaxScan }

\* C21: a call whose floor occurs in the anchor's capture walks from just
\* below the highest occurrence of the floor down to the first entry, so
\* that no entry at or above the floor is among the child's frames; a call
\* without floor starts at the deepest frame
C21_FloorRule ==
    /\ \A c \in WithAnchor(heap) : FloorRule(heap, c)
    /\ \A callers \in Recursive, parentPC \in {1, 2} :
          Occurs(callers, parentPC) =>
             callerStart(callers, parentPC) = FloorIndex(callers, parentPC) - 1
    /\ \A e \in Errs :
          Cause(heap, e) # Nil =>
             callerStart(CaptureOf(heap, e), 0) = Len(CaptureOf(heap, e))

\* a cause whose capture has frames above the floor, the floor, and frames
\* below it
C21_Witness ==
    \E c \in WithAnchor(heap) :
        /\ Occurs(CaptureOf(heap, c.err), c.parentPC)
        /\ FloorIndex(CaptureOf(heap, c.err), c.parentPC) \in
              2..(Len(CaptureOf(heap, c.err)) - 1)
        /\ Len(OwnWalk(heap, c.err, c.parentPC).CallerLocations) > 0


\* the hierarchy of a call that walks nothing: only the calls for the
\* anchor's causes, flattened when there is one
CausesOnly(h, c) ==
    LET a == Cause(h, c.err)
        subs == [i \in 1..Len(CausesOf(h, a)) |->
                    unpack(h, CausesOf(h, a)[i], h[a].callers[2], Len(h))]
    IN  flatten(UnpackHierarchy(Nil, <<>>, <<>>, subs))

MissingFloor(h, c) ==
    LET callers == CaptureOf(h, c.err)
        hierarchy == unpack(h, c.err, c.parentPC, Len(h) + 1)
    IN  (~Occurs(callers, c.parentPC) /\ ~Aborted(hierarchy)) =>
           /\ callerStart(callers, c.parentPC) = 0
           /\ OwnWalk(h, c.err, c.parentPC).CallerLocations = <<>>
           /\ OwnWalk(h, c.err, c.parentPC).Links = <<>>
           /\ hierarchy = CausesOnly(h, c)

\* C22: a call whose floor does not occur in the anchor's capture walks
\* nothing: no frame and no link of the anchor and its annotations, only
\* the hierarchies of the anchor's causes
C22_MissingFloor == \A c \in WithAnchor(heap) : MissingFloor(heap, c)

\* an annotated Root made in f called from main, a cause of a Join made in
\* g: main's call of g is not in the Root's capture
C22_Witness ==
    \E c \in WithAnchor(heap) :
        /\ ~Occurs(CaptureOf(heap, c.err), c.parentPC)
        /\ ~Aborted(unpack(heap, c.err, c.parentPC, Len(heap) + 1))
        /\ firstExtraStackErr(heap, c.err) # Nil
        /\ heap[firstExtraStackErr(heap, c.err)].data[1].msg # ""
        /\ Len(Unpack(heap, c.err).Links) > 0
        /\ unpack(heap, c.err, c.parentPC, Len(heap) + 1).Links = <<>>


(***************************************************************************)
(* C23: two merges into one Join, in two goroutines.                       *)
(***************************************************************************)
BothDone == \A t \in Threads : procs.thr[t].pc = "done"

Merged(t) == procs.thr[t].err

TheJoin == procs.thr[1].jerr

\* the heap as it was when the first of the two calls started
Before == [heap EXCEPT ![TheJoin].errs = procs.base]

\* the two calls one after the other, in the order in which they started
InTurn ==
    CallJoin(rev, MainSite,
             CallJoin(rev, MainSite, Before,
                      <<TheJoin, Merged(procs.order[1]), Nil>>).heap,
             <<TheJoin, Merged(procs.order[2]), Nil>>).heap

\* C23, second half: when the second merge starts after the first has
\* returned, the Join's causes are those of before followed by the two
\* merged errors in the order of the merges (the first half, the
\* interleaving that loses one, is C23_Witness)
C23_Serialized ==
    (BothDone /\ ~procs.overlap) =>
       /\ heap[TheJoin].errs
             = procs.base \o <<Merged(procs.order[1]), Merged(procs.order[2])>>
       /\ heap = InTurn

\* the hazard: both merges have returned, the two merged errors differ and
\* were not causes before, and one of them is not among the Join's causes
C23_Witness ==
    /\ BothDone /\ procs.overlap
    /\ Merged(1) # Merged(2)
    /\ {Merged(1), Merged(2)} \cap Range(procs.base) = {}
    /\ \E t \in Threads : Merged(t) \notin Range(heap[TheJoin].errs)
    /\ Len(heap[TheJoin].errs) = Len(procs.base) + 1

====
